---- MODULE Spec2Model ----
(***************************************************************************)
(* Model of strava/fetch_strava_activities.py: the credential refresher    *)
(* (refresh_access_token), the request executor (make_api_request) and     *)
(* the pager / normaliser / exporter (main).                               *)
(*                                                                         *)
(* Tokens are integers: 0 is an absent (falsy) value, 1 is the generation  *)
(* loaded from the environment at import, 2, 3, ... are the generations    *)
(* the OAuth endpoint issues.  The remote API is a black box: the status   *)
(* of every GET, the outcome of every token exchange and the body of every *)
(* page are chosen nondeterministically.                                   *)
(***************************************************************************)
EXTENDS Integers, Sequences, FiniteSets, TLC

\* ---- bounds of the model ----
\* the remote collection has at most MaxPages non-empty pages
MaxPages == 2

\* ---- program constants ----
max_retries == 3
DefaultRetryAfter == 60
OUTPUT_FILE == "strava_activities_last_2_years.csv"
SUMMARY_FILE == "strava_summary_by_sport.csv"

VARIABLES
    pc,              \* position of main
    ACCESS_TOKEN,    \* module global, read once at import
    REFRESH_TOKEN,   \* module global, read once at import
    CLIENT_ID,       \* module global
    CLIENT_SECRET,   \* module global
    environ,         \* os.environ: STRAVA_ACCESS_TOKEN / STRAVA_REFRESH_TOKEN
    envFile,         \* the .env file on disk
    issued,          \* newest token generation issued by the OAuth endpoint
    headers,         \* main's headers dict: the Authorization bearer token
    page,            \* main's page counter
    all_activities,  \* main's accumulator of normalised rows
    response,        \* body of the response make_api_request returned
    files,           \* output files written so far
    summary,         \* the summary table written to SUMMARY_FILE
    callState,       \* make_api_request: idle / attempting / returned / raised
    attempt,         \* make_api_request: the loop variable
    error,           \* the exception last raised
    trace,           \* events of the current make_api_request call
    posts,           \* token-exchange calls of the whole run, each with the
                     \* credentials in memory and on disk when it was made
    requested,       \* page numbers main has called make_api_request for
    served,          \* bodies of the responses main has received
    runError         \* where the run failed

vars == << pc, ACCESS_TOKEN, REFRESH_TOKEN, CLIENT_ID, CLIENT_SECRET, environ,
           envFile, issued, headers, page, all_activities, response, files,
           summary, callState, attempt, error, trace, posts, requested,
           served, runError >>

credVars == << ACCESS_TOKEN, REFRESH_TOKEN, CLIENT_ID, CLIENT_SECRET >>
storeVars == << environ, envFile, issued, posts >>
mainVars == << page, all_activities, files, summary, requested, served,
               runError >>

\* ---- values ----
\* JSON / Python values are tagged, so that the number 0 and the string ""
\* are different values that can still be compared.
Num(n) == << "num", n >>
Str(s) == << "str", s >>
EmptyMarker == Str("")

\* dict.get(key, default)
Get(d, key, default) == IF key \in DOMAIN d THEN d[key] ELSE default

\* round() of the quotient n / d of two naturals, ties to even.  Python rounds
\* the binary float; the records below avoid exact decimal ties, where the
\* float's representation error would decide.
RoundHalfEven(n, d) ==
    LET q == n \div d
        r == n % d
    IN  IF 2 * r < d THEN q
        ELSE IF 2 * r > d THEN q + 1
        ELSE IF q % 2 = 0 THEN q ELSE q + 1

\* Raw numbers: distance in metres, times in seconds, speeds in 1/100 m/s.
\* Normalised numbers are fixed point: distance_km and the speeds in 1/100,
\* the durations in 1/10.
KmOf(v) == Num(RoundHalfEven(v[2], 10))
MinOf(v) == Num(RoundHalfEven(v[2], 6))
KmphOf(v) == Num(RoundHalfEven(v[2] * 36, 10))

\* keys main reads with activity[...]: a missing one raises KeyError.
\* activity.get("sport_type", activity["type"]) evaluates activity["type"]
\* before the call, whether or not sport_type is present.
SubscriptedKeys == { "id", "name", "type", "start_date_local" }

NormalizeRaises(activity) == ~(SubscriptedKeys \subseteq DOMAIN activity)

\* a normaliser that defaults calories to 0 like the numeric fields
Normalize_zeroCalories(activity) ==
    [ id |-> activity["id"],
      name |-> activity["name"],
      sport_type |-> Get(activity, "sport_type", activity["type"]),
      start_date |-> activity["start_date_local"],
      distance_km |-> KmOf(Get(activity, "distance", Num(0))),
      moving_time_min |-> MinOf(Get(activity, "moving_time", Num(0))),
      elapsed_time_min |-> MinOf(Get(activity, "elapsed_time", Num(0))),
      average_speed_kmph |-> KmphOf(Get(activity, "average_speed", Num(0))),
      max_speed_kmph |-> KmphOf(Get(activity, "max_speed", Num(0))),
      total_elevation_gain_m |-> Get(activity, "total_elevation_gain", EmptyMarker),
      average_heartrate |-> Get(activity, "average_heartrate", EmptyMarker),
      max_heartrate |-> Get(activity, "max_heartrate", EmptyMarker),
      calories |-> Get(activity, "calories", Num(0)),
      trainer |-> Get(activity, "trainer", Num(0)),
      commute |-> Get(activity, "commute", Num(0)) ]

\* the dict main appends for one activity
Normalize(activity) ==
    [ id |-> activity["id"],
      name |-> activity["name"],
      sport_type |-> Get(activity, "sport_type", activity["type"]),
      start_date |-> activity["start_date_local"],
      distance_km |-> KmOf(Get(activity, "distance", Num(0))),
      moving_time_min |-> MinOf(Get(activity, "moving_time", Num(0))),
      elapsed_time_min |-> MinOf(Get(activity, "elapsed_time", Num(0))),
      average_speed_kmph |-> KmphOf(Get(activity, "average_speed", Num(0))),
      max_speed_kmph |-> KmphOf(Get(activity, "max_speed", Num(0))),
      total_elevation_gain_m |-> Get(activity, "total_elevation_gain", EmptyMarker),
      average_heartrate |-> Get(activity, "average_heartrate", EmptyMarker),
      max_heartrate |-> Get(activity, "max_heartrate", EmptyMarker),
      calories |-> Get(activity, "calories", EmptyMarker),
      trainer |-> Get(activity, "trainer", Num(0)),
      commute |-> Get(activity, "commute", Num(0)) ]

\* index of the first record of a body whose normalisation raises, or 0
RECURSIVE FirstRaising(_, _)
FirstRaising(body, i) ==
    IF i > Len(body) THEN 0
    ELSE IF NormalizeRaises(body[i]) THEN i
    ELSE FirstRaising(body, i + 1)

\* the rows of the first n records of a body
NormalizeFirst(body, n) == [ i \in 1..n |-> Normalize(body[i]) ]

\* ---- the pages the remote API may serve ----
RunFull ==
    ("id" :> Num(1)) @@ ("name" :> Str("Morning Run")) @@ ("type" :> Str("Run"))
    @@ ("sport_type" :> Str("TrailRun")) @@ ("start_date_local" :> Str("d1"))
    @@ ("distance" :> Num(5004)) @@ ("moving_time" :> Num(1500))
    @@ ("elapsed_time" :> Num(1600)) @@ ("average_speed" :> Num(334))
    @@ ("max_speed" :> Num(450)) @@ ("total_elevation_gain" :> Num(12))
    @@ ("average_heartrate" :> Num(150)) @@ ("max_heartrate" :> Num(180))
    @@ ("calories" :> Num(400)) @@ ("trainer" :> Num(0)) @@ ("commute" :> Num(1))

RideSparse ==
    ("id" :> Num(2)) @@ ("name" :> Str("Ride")) @@ ("type" :> Str("Ride"))
    @@ ("start_date_local" :> Str("d2")) @@ ("distance" :> Num(10000))

NoLegacyType ==
    ("id" :> Num(3)) @@ ("name" :> Str("Hike")) @@ ("sport_type" :> Str("Hike"))
    @@ ("start_date_local" :> Str("d3"))

Run5 ==
    ("id" :> Num(4)) @@ ("name" :> Str("Run")) @@ ("type" :> Str("Run"))
    @@ ("sport_type" :> Str("Run")) @@ ("start_date_local" :> Str("d4"))
    @@ ("distance" :> Num(5000))

Run3 ==
    ("id" :> Num(5)) @@ ("name" :> Str("Run")) @@ ("type" :> Str("Run"))
    @@ ("sport_type" :> Str("Run")) @@ ("start_date_local" :> Str("d5"))
    @@ ("distance" :> Num(3000))

Bodies ==
    { << >>, << RunFull >>, << RideSparse >>, << Run5, Run3 >>,
      << RunFull, NoLegacyType >> }

\* ---- the aggregator: df.groupby("sport_type").agg(sum, count) ----
RECURSIVE SumDistance(_, _)
SumDistance(rows, sport) ==
    IF rows = << >> THEN 0
    ELSE (IF Head(rows).sport_type = sport THEN Head(rows).distance_km[2] ELSE 0)
         + SumDistance(Tail(rows), sport)

\* a count of all rows instead of the rows of the group
CountRows_all(rows, sport) == Len(rows)

CountRows(rows, sport) ==
    Cardinality({ i \in 1..Len(rows) : rows[i].sport_type = sport })

Aggregate(rows) ==
    { [ sport_type |-> s,
        distance_km |-> SumDistance(rows, s),
        activity_count |-> CountRows(rows, s) ]
      : s \in { rows[i].sport_type : i \in 1..Len(rows) } }

\* ---- events of a make_api_request call ----
GetEv(status, token, att) ==
    [ ev |-> "GET", status |-> status, token |-> token, attempt |-> att, secs |-> 0 ]
PostEv(outcome, token, att) ==
    [ ev |-> "POST", status |-> outcome, token |-> token, attempt |-> att, secs |-> 0 ]
SleepEv(kind, secs, att) ==
    [ ev |-> "sleep", status |-> kind, token |-> 0, attempt |-> att, secs |-> secs ]

\* ---- state after the module has been imported ----
Init ==
    /\ pc = "start"
    /\ ACCESS_TOKEN \in { 0, 1 }
    /\ REFRESH_TOKEN \in { 0, 1 }
    /\ CLIENT_ID \in { "", "cid" }
    /\ CLIENT_SECRET \in { "", "secret" }
    /\ environ = [ access |-> ACCESS_TOKEN, refresh |-> REFRESH_TOKEN ]
    /\ envFile = [ access |-> ACCESS_TOKEN, refresh |-> REFRESH_TOKEN ]
    /\ issued = 1
    /\ headers = 0
    /\ page = 0
    /\ all_activities = << >>
    /\ response = << >>
    /\ files = {}
    /\ summary = {}
    /\ callState = "idle"
    /\ attempt = 0
    /\ error = "none"
    /\ trace = << >>
    /\ posts = << >>
    /\ requested = << >>
    /\ served = << >>
    /\ runError = "none"

\* ---- make_api_request ----
InCall == pc = "call" /\ callState = "attempting"

\* statuses for which response.raise_for_status() raises HTTPError
HTTPErrorStatuses == { "401", "500" }
\* statuses that are none of 429, 401, 200
OtherStatuses == { "204", "304", "500" }
\* the Retry-After header of a 429 response
RetryAfterHeaders == { "absent", "5", "http-date" }

\* a backoff that grows linearly from zero
BackoffWait_linear(att) == 2 * att

\* wait_time = 2 ** attempt
BackoffWait(att) == 2 ^ att

\* an off-by-one bound that lets the last attempt back off as well
RetriesLeft_offByOne(att) == att < max_retries

\* attempt < max_retries - 1 (and the negation of attempt == max_retries - 1)
RetriesLeft(att) == att < max_retries - 1

\* a refresh on every 401
MayRefresh_always(att) == TRUE

\* if attempt == 0:  # Only try to refresh once
MayRefresh(att) == att = 0

\* a refresh that raises HTTPError (a RequestException) on a non-200 answer
RefreshRaisesRequestException_httpError(outcome) == outcome \in { "fault", "non200" }

\* the exceptions of refresh_access_token that are RequestExceptions (raised
\* by requests.post); the others are ValueError, Exception and OSError
RefreshRaisesRequestException(outcome) == outcome = "fault"

\* a 200 that is not returned: the loop goes on to its next iteration
Return_keepsLooping(tr, body) ==
    /\ trace' = tr
    /\ IF attempt + 1 < max_retries
       THEN attempt' = attempt + 1 /\ UNCHANGED << callState, error >>
       ELSE callState' = "raised" /\ error' = "Unexpected" /\ attempt' = attempt
    /\ response' = response

\* a check that forgets the client secret
ConfigMissing_ignoresSecret == REFRESH_TOKEN = 0 \/ CLIENT_ID = ""

\* if not all([REFRESH_TOKEN, CLIENT_ID, CLIENT_SECRET]): raise ValueError
ConfigMissing == REFRESH_TOKEN = 0 \/ CLIENT_ID = "" \/ CLIENT_SECRET = ""

\* return response
Return(tr, body) ==
    /\ trace' = tr
    /\ callState' = "returned"
    /\ response' = body
    /\ UNCHANGED << attempt, error >>

\* an exception leaves make_api_request
Raise(err, tr) ==
    /\ trace' = tr
    /\ callState' = "raised"
    /\ error' = err
    /\ UNCHANGED << attempt, response >>

\* a retry loop that does not count its iterations
Continue_unbounded(tr) ==
    /\ trace' = tr
    /\ UNCHANGED << attempt, callState, error, response >>

\* the loop body ends (continue, or the end of the except clause): the for
\* loop takes the next value of range(max_retries), or is exhausted and the
\* raise after the loop is reached
Continue(tr) ==
    IF attempt + 1 < max_retries
    THEN /\ trace' = tr
         /\ attempt' = attempt + 1
         /\ UNCHANGED << callState, error, response >>
    ELSE Raise("Unexpected", tr)

\* except requests.exceptions.RequestException
ExceptRequestException(tr) ==
    IF RetriesLeft(attempt)
    THEN Continue(Append(tr, SleepEv("backoff", BackoffWait(attempt), attempt)))
    ELSE Raise("RequestFailed", tr)

\* requests.get returns 200
GetOk ==
    /\ InCall
    /\ \E body \in Bodies :
        /\ body # << >> => page <= MaxPages
        /\ Return(Append(trace, GetEv("200", headers, attempt)), body)
    /\ UNCHANGED << pc, headers, credVars, storeVars, mainVars >>

\* requests.get returns 429
GetRateLimited ==
    /\ InCall
    /\ \E ra \in RetryAfterHeaders :
        LET tr == Append(trace, GetEv("429", headers, attempt))
        IN  IF ra = "http-date"
            THEN Raise("ValueError", tr)
            ELSE Continue(Append(tr, SleepEv("rate",
                     IF ra = "absent" THEN DefaultRetryAfter ELSE 5, attempt)))
    /\ UNCHANGED << pc, headers, credVars, storeVars, mainVars >>

\* requests.get returns 401 on the attempt that may refresh:
\* refresh_access_token() is called
GetAuthExpired ==
    /\ InCall
    /\ MayRefresh(attempt)
    /\ LET tr == Append(trace, GetEv("401", headers, attempt))
       IN  IF ConfigMissing
           THEN /\ Raise("ConfigurationError", tr)
                /\ UNCHANGED << headers, storeVars >>
           ELSE \E outcome \in { "ok", "oserror", "non200", "fault" } :
                LET trp == Append(tr, PostEv(outcome, REFRESH_TOKEN, attempt))
                    new == [ access |-> issued + 1, refresh |-> issued + 1 ]
                IN  /\ posts' = Append(posts, [ presented |-> REFRESH_TOKEN,
                                                environ |-> environ,
                                                envFile |-> envFile,
                                                outcome |-> outcome ])
                    /\ CASE outcome = "ok" ->
                              /\ issued' = issued + 1
                              /\ environ' = new
                              /\ envFile' = new
                              /\ headers' = new.access
                              /\ Continue(trp)
                         [] outcome = "oserror" ->
                              /\ issued' = issued + 1
                              /\ environ' = new
                              /\ Raise("OSError", trp)
                              /\ UNCHANGED << envFile, headers >>
                         [] OTHER ->
                              /\ IF RefreshRaisesRequestException(outcome)
                                 THEN ExceptRequestException(trp)
                                 ELSE Raise("RefreshFailed", trp)
                              /\ UNCHANGED << issued, environ, envFile, headers >>
    /\ UNCHANGED << pc, credVars, mainVars >>

\* requests.get returns a status that is not 429, not 200 and not a 401 that
\* may refresh
GetOther ==
    /\ InCall
    /\ \E status \in OtherStatuses \cup (IF MayRefresh(attempt) THEN {} ELSE { "401" }) :
        LET tr == Append(trace, GetEv(status, headers, attempt))
        IN  IF RetriesLeft(attempt)
            THEN Continue(Append(tr, SleepEv("backoff", BackoffWait(attempt), attempt)))
            ELSE IF status \in HTTPErrorStatuses
                 THEN ExceptRequestException(tr)
                 ELSE Continue(tr)
    /\ UNCHANGED << pc, headers, credVars, storeVars, mainVars >>

\* requests.get raises a RequestException (timeout, connection error)
GetFault ==
    /\ InCall
    /\ ExceptRequestException(Append(trace, GetEv("fault", headers, attempt)))
    /\ UNCHANGED << pc, headers, credVars, storeVars, mainVars >>

\* ---- main ----
callVars == << callState, attempt, error, trace, response >>

\* a page counter that skips a page
NextPage_skip(p) == p + 2

\* page += 1
NextPage(p) == p + 1

\* if not data: ... break
IsLastPage(body) == body = << >>

\* if not ACCESS_TOKEN: raise ValueError (outside the try block); otherwise
\* the headers, the page counter and the accumulator are set up
MainStart ==
    /\ pc = "start"
    /\ IF ACCESS_TOKEN = 0
       THEN /\ pc' = "crashed"
            /\ error' = "ValueError"
            /\ UNCHANGED << headers, page >>
       ELSE /\ pc' = "loop"
            /\ headers' = ACCESS_TOKEN
            /\ page' = 1
            /\ error' = error
    /\ UNCHANGED << credVars, storeVars, all_activities, files, summary,
                    requested, served, runError, callState, attempt, trace,
                    response >>

\* a call that is handed headers rebuilt from ACCESS_TOKEN
MainCall_freshHeaders ==
    /\ pc = "loop"
    /\ pc' = "call"
    /\ requested' = Append(requested, page)
    /\ callState' = "attempting"
    /\ attempt' = 0
    /\ trace' = << >>
    /\ headers' = ACCESS_TOKEN
    /\ UNCHANGED << credVars, storeVars, page, all_activities, files,
                    summary, served, runError, error, response >>

\* top of the while loop: make_api_request(url, headers, params) is entered
MainCall ==
    /\ pc = "loop"
    /\ pc' = "call"
    /\ requested' = Append(requested, page)
    /\ callState' = "attempting"
    /\ attempt' = 0
    /\ trace' = << >>
    /\ UNCHANGED << credVars, storeVars, headers, page, all_activities, files,
                    summary, served, runError, error, response >>

\* make_api_request returned: data = response.json(), then either the break
\* and the check for an empty accumulator, or the normalisation of the page
MainOnReturn ==
    /\ pc = "call"
    /\ callState = "returned"
    /\ served' = Append(served, response)
    /\ IF IsLastPage(response)
       THEN /\ pc' = IF all_activities = << >> THEN "nodata" ELSE "export"
            /\ UNCHANGED << all_activities, page, runError, error >>
       ELSE LET k == FirstRaising(response, 1)
            IN  IF k # 0
                THEN /\ all_activities' = all_activities \o NormalizeFirst(response, k - 1)
                     /\ pc' = "failed"
                     /\ runError' = "normalize"
                     /\ error' = "KeyError"
                     /\ page' = page
                ELSE /\ all_activities' =
                            all_activities \o NormalizeFirst(response, Len(response))
                     /\ page' = NextPage(page)
                     /\ pc' = "loop"
                     /\ UNCHANGED << runError, error >>
    /\ UNCHANGED << credVars, storeVars, headers, files, summary, requested,
                    callState, attempt, trace, response >>

\* an exception handler that exports what has been accumulated
MainOnRaise_export ==
    /\ pc = "call"
    /\ callState = "raised"
    /\ pc' = "export"
    /\ runError' = "fetch"
    /\ UNCHANGED << credVars, storeVars, headers, page, all_activities, files,
                    summary, requested, served, callVars >>

\* an exception handler that never returns
MainOnRaise_stuck ==
    /\ pc = "call"
    /\ callState = "raised"
    /\ UNCHANGED vars

\* make_api_request raised: except Exception as e: ... return 1
MainOnRaise ==
    /\ pc = "call"
    /\ callState = "raised"
    /\ pc' = "failed"
    /\ runError' = "fetch"
    /\ UNCHANGED << credVars, storeVars, headers, page, all_activities, files,
                    summary, requested, served, callVars >>

\* df.to_csv(OUTPUT_FILE), which may raise
ExportOutput ==
    /\ pc = "export"
    /\ \/ /\ files' = files \cup { OUTPUT_FILE }
          /\ pc' = "summary"
          /\ UNCHANGED << runError, error >>
       \/ /\ pc' = "failed"
          /\ runError' = "export"
          /\ error' = "OSError"
          /\ files' = files
    /\ UNCHANGED << credVars, storeVars, headers, page, all_activities,
                    summary, requested, served, callState, attempt, trace,
                    response >>

\* the groupby summary and summary_df.to_csv(SUMMARY_FILE), which may raise
ExportSummary ==
    /\ pc = "summary"
    /\ \/ /\ summary' = Aggregate(all_activities)
          /\ files' = files \cup { SUMMARY_FILE }
          /\ pc' = "done"
          /\ UNCHANGED << runError, error >>
       \/ /\ pc' = "failed"
          /\ runError' = "export"
          /\ error' = "OSError"
          /\ UNCHANGED << files, summary >>
    /\ UNCHANGED << credVars, storeVars, headers, page, all_activities,
                    requested, served, callState, attempt, trace, response >>

Next ==
    \/ MainStart
    \/ MainCall
    \/ GetOk
    \/ GetRateLimited
    \/ GetAuthExpired
    \/ GetOther
    \/ GetFault
    \/ MainOnReturn
    \/ MainOnRaise
    \/ ExportOutput
    \/ ExportSummary

Spec == Init /\ [][Next]_vars

\* The script is one sequential process that is never suspended: whenever a
\* step is possible, one is taken.
FairSpec == Spec /\ WF_vars(Next)

\* ---- observations on the events of a call ----
IsGet(e) == e.ev = "GET"
IsPost(e) == e.ev = "POST"
IsSleep(e) == e.ev = "sleep"
Gets(tr) == SelectSeq(tr, IsGet)
Posts(tr) == SelectSeq(tr, IsPost)
Sleeps(tr) == SelectSeq(tr, IsSleep)
StatusesOf(tr) == [ i \in 1..Len(Gets(tr)) |-> Gets(tr)[i].status ]
SecsOf(tr) == [ i \in 1..Len(Sleeps(tr)) |-> Sleeps(tr)[i].secs ]
\* a transient failure: neither 2xx nor 429 nor 401, or a network fault
IsTransient(e) == IsGet(e) /\ e.status \in { "304", "500", "fault" }

\* C1: a 429 does not consume the retry budget: a call that has seen only
\* 429 responses (each followed by its wait) is never ended by the exhausted
\* loop, and the GET after a 429 wait runs with the same attempt number as the
\* GET before it.
C1_RateLimitKeepsBudget ==
    /\ ~ /\ callState = "raised"
         /\ error = "Unexpected"
         /\ \A i \in 1..Len(Gets(trace)) : Gets(trace)[i].status = "429"
    /\ \A i \in 1..Len(trace) :
           /\ IsGet(trace[i])
           /\ trace[i].status = "429"
           /\ i + 2 <= Len(trace)
           /\ IsGet(trace[i + 2])
           => trace[i + 2].attempt = trace[i].attempt

\* C2: a 401 on the first request, a successful refresh and a 401 on the
\* retried request end the call in error after exactly two GET requests, with
\* no backoff sleep and no third GET.
C2_SecondAuthFailureTerminal ==
    /\ Len(Gets(trace)) >= 2
    /\ Gets(trace)[1].status = "401"
    /\ Gets(trace)[2].status = "401"
    /\ Len(Posts(trace)) = 1
    /\ Posts(trace)[1].status = "ok"
    => /\ callState = "raised"
       /\ Len(Gets(trace)) = 2
       /\ Sleeps(trace) = << >>

\* C3: every transient failure on an attempt that is not the last is followed
\* by a backoff sleep of 2^attempt seconds and then by another GET; the
\* responses 500, 500, 200 return the 200 after sleeps of 1s and 2s and three
\* GET requests.
C3_BackoffAfterTransient ==
    /\ \A i \in 1..Len(trace) :
           IsTransient(trace[i]) /\ trace[i].attempt < max_retries - 1
           => /\ i + 1 <= Len(trace)
              /\ trace[i + 1] = SleepEv("backoff", 2 ^ trace[i].attempt, trace[i].attempt)
              /\ IF i + 2 <= Len(trace)
                 THEN IsGet(trace[i + 2])
                 ELSE callState = "attempting"
    /\ StatusesOf(trace) = << "500", "500", "200" >>
           => /\ callState = "returned"
              /\ SecsOf(trace) = << 1, 2 >>
              /\ Len(Gets(trace)) = 3

C3_Witness ==
    /\ StatusesOf(trace) = << "500", "500", "200" >>
    /\ callState = "returned"

C5_RefreshOnceOnFirstAttempt ==
    /\ Len(Posts(trace)) <= 1
    /\ \A i \in 1..Len(trace) :
           IsPost(trace[i])
           => /\ i = 2
              /\ trace[1] = GetEv("401", trace[1].token, 0)
              /\ trace[i].status = "ok"
                 => /\ environ.access = issued
                    /\ issued # trace[1].token
                    /\ IF i + 1 <= Len(trace)
                       THEN IsGet(trace[i + 1]) /\ trace[i + 1].token = issued
                       ELSE callState = "attempting" /\ headers = issued
    /\ callState = "raised" /\ error = "ConfigurationError"
           => trace = << GetEv("401", headers, 0) >>

C5_Witness ==
    /\ Len(trace) = 3
    /\ trace[2].ev = "POST"
    /\ trace[2].status = "ok"
    /\ trace[3] = GetEv("200", issued, 1)

\* ---- observations on the run ----
\* the rows of the bodies served before the i-th, in page order
RECURSIVE RowsBefore(_, _)
RowsBefore(bodies, i) ==
    IF i <= 1 THEN << >>
    ELSE RowsBefore(bodies, i - 1)
         \o [ j \in 1..Len(bodies[i - 1]) |-> Normalize(bodies[i - 1][j]) ]

\* the fetch has reached the empty page
ReachedEmptyPage == served # << >> /\ served[Len(served)] = << >>

\* C6: pages are requested in the order 1, 2, 3, ... without a gap; the page
\* counter is one more than the number of pages fetched and accumulated; when
\* page n is the first empty page, the accumulator holds exactly the rows of
\* pages 1..n-1 in page order, the loop has ended without error and page n is
\* the last page requested.
C6_PagesInOrder ==
    /\ requested = [ i \in 1..Len(requested) |-> i ]
    /\ Len(served) <= Len(requested)
    /\ Len(requested) <= Len(served) + 1
    /\ \A i \in 1..(Len(served) - 1) : served[i] # << >>
    /\ pc = "loop" => page = Len(served) + 1 /\ Len(requested) = Len(served)
    /\ pc = "call" => page = Len(requested)
    /\ ReachedEmptyPage
           => /\ all_activities = RowsBefore(served, Len(served))
              /\ Len(requested) = Len(served)
              /\ page = Len(served)
              /\ pc \in { "nodata", "export", "summary", "done", "failed" }
              /\ runError \in { "none", "export" }

C6_Witness ==
    /\ Len(served) = 3
    /\ served[3] = << >>
    /\ Len(all_activities) = Len(served[1]) + Len(served[2])
    /\ pc = "export"

\* C7: an output file exists only after the fetch has reached the empty page
\* and every fetched record has been normalised into the accumulator; a run
\* in which a page fetch, a credential refresh or a normalisation failed ends
\* as failed with no output file written, whatever had been accumulated.
C7_NoPartialOutput ==
    /\ files # {}
           => /\ ReachedEmptyPage
              /\ all_activities = RowsBefore(served, Len(served))
              /\ \A i \in 1..Len(served) : FirstRaising(served[i], 1) = 0
              /\ pc \in { "summary", "done", "failed" }
    /\ callState = "raised" => pc \in { "call", "failed" } /\ files = {}
    /\ runError \in { "fetch", "normalize" } => pc = "failed" /\ files = {}
    /\ pc = "crashed" => files = {}
    /\ pc \in { "export", "summary", "done" } => runError = "none"

C7_Witness ==
    /\ pc = "failed"
    /\ runError = "fetch"
    /\ Len(all_activities) >= 2
    /\ files = {}

\* C8: every token-exchange call presents the refresh token of the
\* credential set that the most recent successful refresh stored.
C8_RefreshPresentsLatestToken ==
    \A i \in 1..Len(posts) : posts[i].presented = posts[i].environ.refresh

\* C9: when the token exchange succeeds and writing the .env file fails, the
\* refresher still returns the new access token and the call goes on with the
\* retried request: neither the call nor the run ends in error.
C9_PersistFailureContinues ==
    (\E i \in 1..Len(trace) : IsPost(trace[i]) /\ trace[i].status = "oserror")
    => callState # "raised" /\ pc # "failed"

\* C10: a non-200 answer of the token endpoint makes the refresh fail with
\* the error that carries status and body; the credentials in memory and on
\* disk stay as they were, nothing is retried (no further GET, sleep or
\* token exchange follows in the call or in the run) and the run aborts.
C10_RefreshRejectedIsFatal ==
    \A i \in 1..Len(posts) :
        posts[i].outcome = "non200"
        => /\ i = Len(posts)
           /\ environ = posts[i].environ
           /\ envFile = posts[i].envFile
           /\ callState = "raised"
           /\ error = "RefreshFailed"
           /\ IsPost(trace[Len(trace)])
           /\ trace[Len(trace)].status = "non200"
           /\ Len(Gets(trace)) = 1
           /\ pc \in { "call", "failed" }
           /\ pc = "failed" => runError = "fetch"
           /\ files = {}

C10_Witness ==
    /\ posts # << >>
    /\ posts[Len(posts)].outcome = "non200"
    /\ pc = "failed"
    /\ Len(posts) >= 2

\* C11 as stated: every 2xx response, 200 or not, ends the call at once with
\* a normal return: it is the last event of the call.
C11_Any2xxSucceeds ==
    \A i \in 1..Len(trace) :
        IsGet(trace[i]) /\ trace[i].status \in { "200", "204" }
        => i = Len(trace) /\ callState = "returned"

\* C11 amended: a 200 response, on any attempt including the last, ends the
\* call at once with a normal return of that response (no sleep, GET or error
\* follows it); a 2xx response other than 200 never makes the call return.
C11_Only200Succeeds ==
    /\ \A i \in 1..Len(trace) :
           IsGet(trace[i]) /\ trace[i].status = "200"
           => /\ i = Len(trace)
              /\ callState = "returned"
              /\ pc = "call" => response \in Bodies
    /\ callState = "returned"
           => /\ trace # << >>
              /\ trace[Len(trace)].ev = "GET"
              /\ trace[Len(trace)].status = "200"

C11_Witness ==
    /\ StatusesOf(trace) = << "204", "204", "200" >>
    /\ callState = "returned"
    /\ trace[Len(trace)].attempt = max_retries - 1

\* C12: a call whose responses are 429s, exactly one 401 and a 200, in any
\* order of the 429s relative to the 401, with every wait made and the
\* refresh succeeding when it is made, refreshes the credentials on that 401
\* and does not end in error; when its last response is the 200, it returns.
C12_RateLimitAndExpiryRecovered ==
    /\ \A i \in 1..Len(Gets(trace)) : Gets(trace)[i].status \in { "429", "401", "200" }
    /\ Cardinality({ i \in 1..Len(Gets(trace)) : Gets(trace)[i].status = "401" }) = 1
    /\ \A i \in 1..Len(Posts(trace)) : Posts(trace)[i].status = "ok"
    /\ ~(REFRESH_TOKEN = 0 \/ CLIENT_ID = "" \/ CLIENT_SECRET = "")
    /\ ~(callState = "raised" /\ error = "ValueError")
    => /\ Len(Posts(trace)) = 1
       /\ callState # "raised"

\* C13: a refresh attempted while the refresh token, the client id or the
\* client secret is missing fails with the configuration error before any
\* token-exchange call: the 401 that asked for it is the last event of the
\* call, no token exchange is ever made in the run, the stored credentials
\* are those loaded at startup, and this holds for the call of every page.
C13_MissingConfigFailsBeforeExchange ==
    (REFRESH_TOKEN = 0 \/ CLIENT_ID = "" \/ CLIENT_SECRET = "")
    => /\ posts = << >>
       /\ Posts(trace) = << >>
       /\ environ = [ access |-> ACCESS_TOKEN, refresh |-> REFRESH_TOKEN ]
       /\ envFile = [ access |-> ACCESS_TOKEN, refresh |-> REFRESH_TOKEN ]
       /\ \A i \in 1..Len(trace) :
              IsGet(trace[i]) /\ trace[i].status = "401" /\ trace[i].attempt = 0
              => /\ i = Len(trace)
                 /\ callState = "raised"
                 /\ error = "ConfigurationError"
                 /\ pc \in { "call", "failed" }
                 /\ files = {}

C13_Witness ==
    /\ CLIENT_SECRET = ""
    /\ REFRESH_TOKEN # 0
    /\ CLIENT_ID # ""
    /\ Len(requested) = 2
    /\ trace = << GetEv("401", headers, 0) >>
    /\ error = "ConfigurationError"
    /\ pc = "failed"

\* main has returned or has been left by an uncaught exception
Terminated == pc \in { "done", "nodata", "failed", "crashed" }

\* C14: against a source that has an empty page at a finite page number
\* (here at most MaxPages + 1), every run terminates, by completing or by
\* reporting failure: no page fetch and no export step goes on forever.
C14_RunTerminates == <>Terminated

C14_Witness ==
    /\ Terminated
    /\ pc = "done"
    /\ Len(served) = 3

\* the sum of distance_km over the rows with index in I
RECURSIVE SumOverIndices(_, _)
SumOverIndices(rows, I) ==
    IF I = {} THEN 0
    ELSE LET i == CHOOSE j \in I : TRUE
         IN  rows[i].distance_km[2] + SumOverIndices(rows, I \ { i })

\* the sum of activity_count over a set of summary rows
RECURSIVE SumOfCounts(_)
SumOfCounts(S) ==
    IF S = {} THEN 0
    ELSE LET r == CHOOSE x \in S : TRUE
         IN  r.activity_count + SumOfCounts(S \ { r })

IndicesOf(rows, sport) == { i \in 1..Len(rows) : rows[i].sport_type = sport }

\* C15: the summary has exactly one row per distinct category of the table;
\* its count is the number of rows of that category and its total the sum of
\* their distance_km, so the counts add up to the number of rows; the rows
\* (Run, 5), (Run, 3), (Ride, 10) give {Run: 8, 2} and {Ride: 10, 1}.
C15_SummaryPerCategory ==
    pc = "done"
    => LET rows == all_activities
           cats == { rows[i].sport_type : i \in 1..Len(rows) }
       IN  /\ { r.sport_type : r \in summary } = cats
           /\ Cardinality(summary) = Cardinality(cats)
           /\ \A r \in summary :
                  /\ r.activity_count = Cardinality(IndicesOf(rows, r.sport_type))
                  /\ r.distance_km = SumOverIndices(rows, IndicesOf(rows, r.sport_type))
           /\ SumOfCounts(summary) = Len(rows)
           /\ [ i \in 1..Len(rows) |-> << rows[i].sport_type, rows[i].distance_km >> ]
                  = << << Str("Run"), Num(500) >>, << Str("Run"), Num(300) >>,
                       << Str("Ride"), Num(1000) >> >>
              => summary =
                     { [ sport_type |-> Str("Run"), distance_km |-> 800,
                         activity_count |-> 2 ],
                       [ sport_type |-> Str("Ride"), distance_km |-> 1000,
                         activity_count |-> 1 ] }

C15_Witness ==
    /\ pc = "done"
    /\ Len(all_activities) = 3
    /\ all_activities[1].distance_km = Num(500)
    /\ all_activities[2].distance_km = Num(300)
    /\ all_activities[3].sport_type = Str("Ride")
    /\ Cardinality(summary) = 2

\* the raw records main has normalised so far, in the order of the accumulator
RECURSIVE RawAccumulated(_, _)
RawAccumulated(bodies, i) ==
    IF i = 0 THEN << >>
    ELSE RawAccumulated(bodies, i - 1)
         \o (LET k == FirstRaising(bodies[i], 1)
             IN  IF k = 0 THEN bodies[i] ELSE SubSeq(bodies[i], 1, k - 1))

\* the fields of a normalised row, and the source fields read with a default
RowFields ==
    { "id", "name", "sport_type", "start_date", "distance_km", "moving_time_min",
      "elapsed_time_min", "average_speed_kmph", "max_speed_kmph",
      "total_elevation_gain_m", "average_heartrate", "max_heartrate",
      "calories", "trainer", "commute" }
DefaultedToEmpty ==
    { << "total_elevation_gain", "total_elevation_gain_m" >>,
      << "average_heartrate", "average_heartrate" >>,
      << "max_heartrate", "max_heartrate" >>,
      << "calories", "calories" >> }
DefaultedToZero ==
    { << "distance", "distance_km" >>, << "moving_time", "moving_time_min" >>,
      << "elapsed_time", "elapsed_time_min" >>,
      << "average_speed", "average_speed_kmph" >>,
      << "max_speed", "max_speed_kmph" >>, << "trainer", "trainer" >>,
      << "commute", "commute" >> }

\* C16 as stated: for every normalised record and every non-mandatory source
\* field it omits, the row's field is present and is the empty string, and
\* every row has the same field set.
C16_MissingFieldsAreEmpty ==
    LET raw == RawAccumulated(served, Len(served))
    IN  /\ Len(raw) = Len(all_activities)
        /\ \A k \in 1..Len(all_activities) :
               /\ DOMAIN all_activities[k] = RowFields
               /\ \A f \in DefaultedToEmpty \cup DefaultedToZero :
                      f[1] \notin DOMAIN raw[k]
                      => all_activities[k][f[2]] = Str("")

\* C16 amended: an omitted elevation gain, average or maximum heart rate or
\* calories gives the empty string; an omitted distance, moving or elapsed
\* time, average or maximum speed, trainer or commute gives the number 0;
\* every row has the same field set.
C16_MissingFieldsDefaulted ==
    LET raw == RawAccumulated(served, Len(served))
    IN  /\ Len(raw) = Len(all_activities)
        /\ \A k \in 1..Len(all_activities) :
               /\ DOMAIN all_activities[k] = RowFields
               /\ \A f \in DefaultedToEmpty :
                      f[1] \notin DOMAIN raw[k]
                      => all_activities[k][f[2]] = Str("")
               /\ \A f \in DefaultedToZero :
                      f[1] \notin DOMAIN raw[k]
                      => all_activities[k][f[2]] = Num(0)

C16_Witness ==
    /\ all_activities # << >>
    /\ all_activities[1].id = Num(2)
    /\ all_activities[1].calories = Str("")
    /\ all_activities[1].moving_time_min = Num(0)
    /\ served[1] = << RideSparse >>

\* C17: the normaliser raises only for a record that lacks the identifier,
\* the name or the start time: the record on which a run failed in
\* normalisation lacks one of the three.
C17_RaisesOnlyOnMandatory ==
    runError = "normalize"
    => LET body == served[Len(served)]
           bad == body[FirstRaising(body, 1)]
       IN  ~({ "id", "name", "start_date_local" } \subseteq DOMAIN bad)

\* C18: a token exchange that fails with a network fault ends the call at
\* once: the failed exchange is the last event of the call (no backoff sleep,
\* no further GET) and the call has raised.
C18_RefreshFaultIsFatal ==
    \A i \in 1..Len(trace) :
        IsPost(trace[i]) /\ trace[i].status = "fault"
        => i = Len(trace) /\ callState = "raised"

\* C19: whatever the server answers, a call issues at most max_retries GET
\* requests and at most one token exchange; while the call is running, the
\* number of GETs issued equals the loop variable, which stays below
\* max_retries, and a call that has issued max_retries GETs has returned or
\* raised.
C19_CallIsBounded ==
    /\ Len(Gets(trace)) <= max_retries
    /\ Len(Posts(trace)) <= 1
    /\ callState = "attempting"
           => Len(Gets(trace)) = attempt /\ attempt < max_retries
    /\ Len(Gets(trace)) = max_retries => callState \in { "returned", "raised" }
    /\ callState \in { "returned", "raised" } => Len(Gets(trace)) >= 1

C19_Witness ==
    /\ StatusesOf(trace) = << "401", "429", "204" >>
    /\ Len(Posts(trace)) = 1
    /\ callState = "raised"

\* the number of successful token exchanges among the first n events / calls
OkPostsIn(tr, n) ==
    Cardinality({ j \in 1..n : tr[j].ev = "POST" /\ tr[j].status = "ok" })
OkPostsOfRun == Cardinality({ j \in 1..Len(posts) : posts[j].outcome = "ok" })

\* C20: every GET carries the access token of the latest refresh that
\* succeeded before it in the run, in the same call or in the call of an
\* earlier page; after a successful refresh no GET carries the startup token.
C20_LaterGetsCarryRefreshedToken ==
    /\ pc \notin { "start", "crashed" } => headers = ACCESS_TOKEN + OkPostsOfRun
    /\ \A i \in 1..Len(trace) :
           IsGet(trace[i])
           => LET before == (OkPostsOfRun - OkPostsIn(trace, Len(trace)))
                            + OkPostsIn(trace, i)
              IN  /\ trace[i].token = ACCESS_TOKEN + before
                  /\ before > 0 => trace[i].token # ACCESS_TOKEN

C20_Witness ==
    /\ Len(requested) = 2
    /\ OkPostsOfRun = 1
    /\ trace = << GetEv("200", 2, 0) >>
    /\ callState = "returned"

====
